---- MODULE Spec2Model ----
(***************************************************************************)
(* Model of the two scripts of the repository:                             *)
(*   validation/validate_with_core.py   (the conformance checker)          *)
(*   automation/generate_define_xml.py  (the Define-XML generator)         *)
(* Each script is one sequential process; SpecValidate and SpecDefine are  *)
(* their specifications.  Calls into pandas, odmlib and the file system    *)
(* either complete or raise; both outcomes are modelled.                   *)
(***************************************************************************)
EXTENDS Integers, Sequences, FiniteSets, TLC

VARIABLES
    \* ---- validate_with_core.py
    CORE_AVAILABLE,   \* module flag set by the guarded import
    entry,            \* "main": run as a script; "call": the function called directly
    domain_path,      \* argument: <<stem, extension>>
    domain_code,      \* argument
    fileExists,       \* file system: Path(domain_path).exists()
    reportFiles,      \* file system: outputs/validation/<code>_core_report.json
    reportFiles0,     \* the report files as they were when the run started
    vpc,              \* control point of validate_sdtm_domain / __main__
    loader,           \* which pandas reader was called
    df,               \* local: the loaded data frame
    required_vars,    \* local: bound only inside the RS branch
    varIdx,           \* position of the `for var in required_vars` loop
    errors,           \* local
    warnings,         \* local
    report,           \* local
    rs_valid,         \* the value validate_sdtm_domain returned
    vexit,            \* process exit code
    trace,            \* history: what the run did so far
    \* ---- generate_define_xml.py
    rs_variables,     \* the variable-definition list of create_rs_domain
    gpc,              \* control point of generate_define_xml_for_recist / __main__
    idx,              \* enumerate(rs_variables, start=1): next index
    mdv,              \* the MetaDataVersion: Standard, ItemDef, ItemGroupDef
    rs_domain,        \* the ItemGroupDef being built: OID, ItemRef
    xmlFile,          \* file system: outputs/specs/define_rs.xml
    jsonFile,         \* file system: outputs/specs/define_rs.json
    gtrace,           \* history: which writes were attempted / raised
    success,          \* the value generate_define_xml_for_recist returned
    gexit             \* process exit code

vvars == <<CORE_AVAILABLE, entry, domain_path, domain_code, fileExists,
           reportFiles, reportFiles0, vpc, loader, df, required_vars, varIdx,
           errors, warnings, report, rs_valid, vexit, trace>>
gvars == <<rs_variables, gpc, idx, mdv, rs_domain, xmlFile, jsonFile, gtrace,
           success, gexit>>
vars == <<vvars, gvars>>

\* ------------------------------------------------------------------ bounds
MaxRows == 2      \* rows of a modelled data frame
MaxVars == 2      \* length of a modelled variable-definition list

\* ------------------------------------------------------------------ values
None == "None"
True == "True"
False == "False"
PyBool(b) == IF b THEN True ELSE False
NotExited == 0 - 1
\* a local name: not yet assigned, or bound to a value
Unbound == [bound |-> FALSE, value |-> <<>>]
Bound(v) == [bound |-> TRUE, value |-> v]
\* the result of evaluating an expression: a value, or NameError raised
Value(v) == [raised |-> FALSE, value |-> v]
NameError == [raised |-> TRUE, value |-> 0]
\* a file: absent, or opened with 'w' and its content not (fully) written
NoFile == [state |-> "absent"]
Truncated == [state |-> "truncated"]

\* ======================================================================
\* validation/validate_with_core.py
\* ======================================================================

RequiredVars == <<"STUDYID", "DOMAIN", "USUBJID", "RSSEQ", "RSTESTCD", "RSTEST">>

DomainCodes == {"RS", "TU"}
DomainValues == {"RS", "XX"}
Columns == {RequiredVars[i] : i \in 1..Len(RequiredVars)}

MainPath == <<"outputs/sdtm/rs_oak", ".xpt">>
MainCode == "RS"
Paths == {MainPath, <<"data/rs", ".csv">>, <<"data/rs", ".sas7bdat">>}

SeqsUpTo(S, n) == UNION {[1..k -> S] : k \in 0..n}

\* A data frame: its column names, its number of rows, and the values of
\* its DOMAIN column (one per row) when it has that column.  A frame without
\* columns has no rows.
DataFrames ==
    {[columns |-> c, records |-> Len(d), DOMAIN_col |-> d] :
        c \in {x \in SUBSET Columns : "DOMAIN" \in x}, d \in SeqsUpTo(DomainValues, MaxRows)}
    \cup
    {f \in {[columns |-> c, records |-> n, DOMAIN_col |-> <<>>] :
                c \in {x \in SUBSET Columns : "DOMAIN" \notin x}, n \in 0..MaxRows} :
        f.columns = {} => f.records = 0}

NoDF == [columns |-> {}, records |-> -1, DOMAIN_col |-> <<>>]

OldReport == [state |-> "written", domain |-> "old", file |-> <<"old">>, records |-> 0,
              total_rules_checked |-> 0, errors |-> 0, warnings |-> 0,
              error_details |-> <<>>, warning_details |-> <<>>]
NoReport == [state |-> "unbuilt"]

Trace0 == [existsTested |-> FALSE, loads |-> 0, checks |-> 0, checked |-> FALSE,
           writes |-> 0, wrote |-> FALSE, excAt |-> "none"]

EndsWith(path, suffix) == Len(path) > 0 /\ path[Len(path)] = suffix

\* all(df['DOMAIN'] == 'RS')
AllEqual(col, v) == \A i \in 1..Len(col) : col[i] = v

MissingError(var) ==
    [rule_id |-> "SDTM001",
     message |-> <<"Required variable ", var, " is missing">>,
     severity |-> "error"]

DomainError ==
    [rule_id |-> "SDTM002",
     message |-> <<"DOMAIN variable must equal \"RS\"">>,
     severity |-> "error"]

\* variant: both branches of the conditional expression are evaluated
TotalRulesChecked_Eager ==
    IF required_vars.bound
    THEN IF domain_code = "RS" THEN Value(Len(required_vars.value)) ELSE Value(0)
    ELSE NameError

\* len(required_vars) if domain_code == 'RS' else 0
\* The condition is evaluated first and only the chosen branch after it.
TotalRulesChecked ==
    IF domain_code = "RS"
    THEN IF required_vars.bound THEN Value(Len(required_vars.value)) ELSE NameError
    ELSE Value(0)

ValInit ==
    /\ CORE_AVAILABLE \in BOOLEAN
    /\ entry \in {"main", "call"}
    /\ IF entry = "main"
       THEN domain_path = MainPath /\ domain_code = MainCode
       ELSE domain_path \in Paths /\ domain_code \in DomainCodes
    /\ fileExists \in BOOLEAN
    /\ reportFiles \in [DomainCodes -> {NoFile, OldReport}]
    /\ reportFiles0 = reportFiles
    /\ vpc = "call"
    /\ loader = None
    /\ df = NoDF
    /\ required_vars = Unbound
    /\ varIdx = 0
    /\ errors = <<>>
    /\ warnings = <<>>
    /\ report = NoReport
    /\ rs_valid = None
    /\ vexit = NotExited
    /\ trace = Trace0

ValIdle ==
    /\ CORE_AVAILABLE = FALSE
    /\ entry = "idle"
    /\ domain_path = MainPath /\ domain_code = MainCode
    /\ fileExists = FALSE
    /\ reportFiles = [c \in DomainCodes |-> NoFile]
    /\ reportFiles0 = reportFiles
    /\ vpc = "idle"
    /\ loader = None
    /\ df = NoDF
    /\ required_vars = Unbound
    /\ varIdx = 0
    /\ errors = <<>>
    /\ warnings = <<>>
    /\ report = NoReport
    /\ rs_valid = None
    /\ vexit = NotExited
    /\ trace = Trace0

\* variant: the existence test runs before the availability test
Validate_NotAvailable_TestsFile ==
    /\ vpc = "call"
    /\ ~CORE_AVAILABLE
    /\ trace' = [trace EXCEPT !.existsTested = TRUE]
    /\ rs_valid' = PyBool(fileExists)
    /\ vpc' = "returned"
    /\ UNCHANGED <<CORE_AVAILABLE, entry, domain_path, domain_code, fileExists,
                   reportFiles, reportFiles0, loader, df, required_vars, varIdx,
                   errors, warnings, report, vexit>>
    /\ UNCHANGED gvars

\* if not CORE_AVAILABLE: return True
Validate_NotAvailable ==
    /\ vpc = "call"
    /\ ~CORE_AVAILABLE
    /\ rs_valid' = True
    /\ vpc' = "returned"
    /\ UNCHANGED <<CORE_AVAILABLE, entry, domain_path, domain_code, fileExists,
                   reportFiles, reportFiles0, loader, df, required_vars, varIdx,
                   errors, warnings, report, vexit, trace>>
    /\ UNCHANGED gvars

\* variant: a missing file is reported but the function does not return
Validate_FileCheck_NoReturn ==
    /\ vpc = "call"
    /\ CORE_AVAILABLE
    /\ trace' = [trace EXCEPT !.existsTested = TRUE]
    /\ vpc' = "load"
    /\ UNCHANGED <<CORE_AVAILABLE, entry, domain_path, domain_code, fileExists,
                   reportFiles, reportFiles0, loader, df, required_vars, varIdx,
                   errors, warnings, report, rs_valid, vexit>>
    /\ UNCHANGED gvars

\* if not Path(domain_path).exists(): return False
Validate_FileCheck ==
    /\ vpc = "call"
    /\ CORE_AVAILABLE
    /\ trace' = [trace EXCEPT !.existsTested = TRUE]
    /\ IF ~fileExists
       THEN rs_valid' = False /\ vpc' = "returned"
       ELSE rs_valid' = rs_valid /\ vpc' = "load"
    /\ UNCHANGED <<CORE_AVAILABLE, entry, domain_path, domain_code, fileExists,
                   reportFiles, reportFiles0, loader, df, required_vars, varIdx,
                   errors, warnings, report, vexit>>
    /\ UNCHANGED gvars

\* the reader chosen by the extension of domain_path
Loader(path) ==
    IF EndsWith(path, ".xpt") THEN "read_sas_xport"
    ELSE IF EndsWith(path, ".csv") THEN "read_csv"
    ELSE "read_sas"

\* df = pd.read_...(domain_path): completes with a data frame
Validate_Load ==
    /\ vpc = "load"
    /\ loader' = Loader(domain_path)
    /\ \E d \in DataFrames : df' = d
    /\ trace' = [trace EXCEPT !.loads = @ + 1]
    /\ vpc' = "checks"
    /\ UNCHANGED <<CORE_AVAILABLE, entry, domain_path, domain_code, fileExists,
                   reportFiles, reportFiles0, required_vars, varIdx,
                   errors, warnings, report, rs_valid, vexit>>
    /\ UNCHANGED gvars

\* df = pd.read_...(domain_path): raises
Validate_LoadRaises ==
    /\ vpc = "load"
    /\ loader' = Loader(domain_path)
    /\ trace' = [trace EXCEPT !.loads = @ + 1, !.excAt = "load"]
    /\ vpc' = "except"
    /\ UNCHANGED <<CORE_AVAILABLE, entry, domain_path, domain_code, fileExists,
                   reportFiles, reportFiles0, df, required_vars, varIdx,
                   errors, warnings, report, rs_valid, vexit>>
    /\ UNCHANGED gvars

\* errors = []; warnings = []; if domain_code == "RS": required_vars = [...]
Validate_BeginChecks ==
    /\ vpc = "checks"
    /\ errors' = <<>>
    /\ warnings' = <<>>
    /\ IF domain_code = "RS"
       THEN /\ required_vars' = Bound(RequiredVars)
            /\ varIdx' = 1
            /\ vpc' = "required"
            /\ trace' = [trace EXCEPT !.checks = @ + 1]
       ELSE /\ UNCHANGED <<required_vars, varIdx>>
            /\ vpc' = "report"
            /\ trace' = [trace EXCEPT !.checked = TRUE]
    /\ UNCHANGED <<CORE_AVAILABLE, entry, domain_path, domain_code, fileExists,
                   reportFiles, reportFiles0, loader, df, report, rs_valid, vexit>>
    /\ UNCHANGED gvars

\* one iteration of: for var in required_vars: if var not in df.columns: ...
Validate_RequiredVar ==
    /\ vpc = "required"
    /\ varIdx <= Len(required_vars.value)
    /\ LET var == required_vars.value[varIdx] IN
       errors' = IF var \notin df.columns
                 THEN Append(errors, MissingError(var))
                 ELSE errors
    /\ varIdx' = varIdx + 1
    /\ vpc' = IF varIdx = Len(required_vars.value) THEN "domain" ELSE "required"
    /\ UNCHANGED <<CORE_AVAILABLE, entry, domain_path, domain_code, fileExists,
                   reportFiles, reportFiles0, loader, df, required_vars,
                   warnings, report, rs_valid, vexit, trace>>
    /\ UNCHANGED gvars

\* variant: one SDTM002 entry per offending row
Offending(col) == SelectSeq(col, LAMBDA v : v # "RS")
PerRowErrors(col) == [i \in 1..Len(Offending(col)) |-> DomainError]

Validate_CheckDomain_PerRow ==
    /\ vpc = "domain"
    /\ errors' = IF "DOMAIN" \in df.columns
                 THEN errors \o PerRowErrors(df.DOMAIN_col)
                 ELSE errors
    /\ trace' = [trace EXCEPT !.checked = TRUE]
    /\ vpc' = "report"
    /\ UNCHANGED <<CORE_AVAILABLE, entry, domain_path, domain_code, fileExists,
                   reportFiles, reportFiles0, loader, df, required_vars, varIdx,
                   warnings, report, rs_valid, vexit>>
    /\ UNCHANGED gvars

\* if 'DOMAIN' in df.columns: if not all(df['DOMAIN'] == 'RS'): errors.append(...)
Validate_CheckDomain ==
    /\ vpc = "domain"
    /\ errors' = IF "DOMAIN" \in df.columns /\ ~AllEqual(df.DOMAIN_col, "RS")
                 THEN Append(errors, DomainError)
                 ELSE errors
    /\ trace' = [trace EXCEPT !.checked = TRUE]
    /\ vpc' = "report"
    /\ UNCHANGED <<CORE_AVAILABLE, entry, domain_path, domain_code, fileExists,
                   reportFiles, reportFiles0, loader, df, required_vars, varIdx,
                   warnings, report, rs_valid, vexit>>
    /\ UNCHANGED gvars

\* the pandas comparison df['DOMAIN'] == 'RS' raises
Validate_CheckRaises ==
    /\ vpc = "domain"
    /\ "DOMAIN" \in df.columns
    /\ trace' = [trace EXCEPT !.excAt = "check"]
    /\ vpc' = "except"
    /\ UNCHANGED <<CORE_AVAILABLE, entry, domain_path, domain_code, fileExists,
                   reportFiles, reportFiles0, loader, df, required_vars, varIdx,
                   errors, warnings, report, rs_valid, vexit>>
    /\ UNCHANGED gvars

\* report = {...}
Validate_BuildReport ==
    /\ vpc = "report"
    /\ IF TotalRulesChecked.raised
       THEN /\ trace' = [trace EXCEPT !.excAt = "report"]
            /\ vpc' = "except"
            /\ UNCHANGED report
       ELSE /\ report' = [state |-> "written",
                          domain |-> domain_code,
                          file |-> domain_path,
                          records |-> df.records,
                          total_rules_checked |-> TotalRulesChecked.value,
                          errors |-> Len(errors),
                          warnings |-> Len(warnings),
                          error_details |-> errors,
                          warning_details |-> warnings]
            /\ vpc' = "write"
            /\ UNCHANGED trace
    /\ UNCHANGED <<CORE_AVAILABLE, entry, domain_path, domain_code, fileExists,
                   reportFiles, reportFiles0, loader, df, required_vars, varIdx,
                   errors, warnings, rs_valid, vexit>>
    /\ UNCHANGED gvars

\* output_dir.mkdir(...); with open(output_path, 'w') as f: json.dump(report, f)
Validate_WriteReport ==
    /\ vpc = "write"
    /\ reportFiles' = [reportFiles EXCEPT ![domain_code] = report]
    /\ trace' = [trace EXCEPT !.writes = @ + 1, !.wrote = TRUE]
    /\ vpc' = "return"
    /\ UNCHANGED <<CORE_AVAILABLE, entry, domain_path, domain_code, fileExists,
                   reportFiles0, loader, df, required_vars, varIdx,
                   errors, warnings, report, rs_valid, vexit>>
    /\ UNCHANGED gvars

\* mkdir or open raises (the file is untouched), or json.dump raises after
\* open(..., 'w') has truncated the file
Validate_WriteRaises ==
    /\ vpc = "write"
    /\ \E step \in {"mkdir", "open", "dump"} :
         reportFiles' = IF step = "dump"
                        THEN [reportFiles EXCEPT ![domain_code] = Truncated]
                        ELSE reportFiles
    /\ trace' = [trace EXCEPT !.writes = @ + 1, !.excAt = "write"]
    /\ vpc' = "except"
    /\ UNCHANGED <<CORE_AVAILABLE, entry, domain_path, domain_code, fileExists,
                   reportFiles0, loader, df, required_vars, varIdx,
                   errors, warnings, report, rs_valid, vexit>>
    /\ UNCHANGED gvars

\* variant: the result ignores the error list
Validate_Return_True ==
    /\ vpc = "return"
    /\ rs_valid' = True
    /\ vpc' = "returned"
    /\ UNCHANGED <<CORE_AVAILABLE, entry, domain_path, domain_code, fileExists,
                   reportFiles, reportFiles0, loader, df, required_vars, varIdx,
                   errors, warnings, report, vexit, trace>>
    /\ UNCHANGED gvars

\* return len(errors) == 0
Validate_Return ==
    /\ vpc = "return"
    /\ rs_valid' = PyBool(Len(errors) = 0)
    /\ vpc' = "returned"
    /\ UNCHANGED <<CORE_AVAILABLE, entry, domain_path, domain_code, fileExists,
                   reportFiles, reportFiles0, loader, df, required_vars, varIdx,
                   errors, warnings, report, vexit, trace>>
    /\ UNCHANGED gvars

\* variant: no handler, the exception leaves the function
Validate_Except_Propagates ==
    /\ vpc = "except"
    /\ vpc' = "raised"
    /\ UNCHANGED <<CORE_AVAILABLE, entry, domain_path, domain_code, fileExists,
                   reportFiles, reportFiles0, loader, df, required_vars, varIdx,
                   errors, warnings, report, rs_valid, vexit, trace>>
    /\ UNCHANGED gvars

\* except Exception as e: ...; return False
Validate_Except ==
    /\ vpc = "except"
    /\ rs_valid' = False
    /\ vpc' = "returned"
    /\ UNCHANGED <<CORE_AVAILABLE, entry, domain_path, domain_code, fileExists,
                   reportFiles, reportFiles0, loader, df, required_vars, varIdx,
                   errors, warnings, report, vexit, trace>>
    /\ UNCHANGED gvars

\* the exit code chosen by the summary of __main__
ExitCode(valid, available) ==
    IF valid = True THEN 0 ELSE IF ~available THEN 0 ELSE 1

\* __main__: sys.exit(...) after validate_sdtm_domain returned
Validate_MainExit ==
    /\ vpc = "returned"
    /\ entry = "main"
    /\ vexit' = ExitCode(rs_valid, CORE_AVAILABLE)
    /\ vpc' = "exited"
    /\ UNCHANGED <<CORE_AVAILABLE, entry, domain_path, domain_code, fileExists,
                   reportFiles, reportFiles0, loader, df, required_vars, varIdx,
                   errors, warnings, report, rs_valid, trace>>
    /\ UNCHANGED gvars

VNext ==
    \/ Validate_NotAvailable
    \/ Validate_FileCheck
    \/ Validate_Load
    \/ Validate_LoadRaises
    \/ Validate_BeginChecks
    \/ Validate_RequiredVar
    \/ Validate_CheckDomain
    \/ Validate_CheckRaises
    \/ Validate_BuildReport
    \/ Validate_WriteReport
    \/ Validate_WriteRaises
    \/ Validate_Return
    \/ Validate_Except
    \/ Validate_MainExit

\* ======================================================================
\* automation/generate_define_xml.py
\* ======================================================================

Var(name, label, datatype, length, core, origin) ==
    [name |-> name, label |-> label, datatype |-> datatype, length |-> length,
     core |-> core, origin |-> origin]

\* the list literal of create_rs_domain
RS_VARIABLES == <<
    Var("STUDYID", "Study Identifier", "text", 12, "Req", "Assigned"),
    Var("DOMAIN", "Domain Abbreviation", "text", 2, "Req", "Assigned"),
    Var("USUBJID", "Unique Subject Identifier", "text", 40, "Req", "Assigned"),
    Var("RSSEQ", "Sequence Number", "integer", 8, "Req", "Assigned"),
    Var("RSTESTCD", "Response Assessment Short Name", "text", 8, "Req", "Assigned"),
    Var("RSTEST", "Response Assessment Name", "text", 40, "Req", "Assigned"),
    Var("RSCAT", "Category for Response", "text", 40, "Perm", "Assigned"),
    Var("RSORRES", "Result in Original Units", "text", 200, "Exp", "CRF"),
    Var("RSSTRESC", "Character Result/Finding in Std Format", "text", 200, "Exp", "Derived"),
    Var("RSSTRESN", "Numeric Result/Finding in Standard Units", "float", 8, "Exp", "Derived"),
    Var("VISITNUM", "Visit Number", "integer", 8, "Exp", "Assigned"),
    Var("VISIT", "Visit Name", "text", 40, "Perm", "Assigned"),
    Var("RSDTC", "Date/Time of Response Assessment", "datetime", 20, "Exp", "CRF"),
    Var("RSDY", "Study Day of Response Assessment", "integer", 8, "Perm", "Derived") >>

\* Other variable-definition lists the loop is run on: every list of at most
\* MaxVars records over these names and core designations ("REQ" stands for a
\* designation that is none of Req, Exp, Perm).
PoolNames == {"USUBJID", "RSCAT"}
PoolCores == {"Req", "Exp", "Perm", "REQ"}
VarPool == {Var(n, "label", "text", 8, c, "Assigned") : n \in PoolNames, c \in PoolCores}

\* f"IT.RS.{var['name']}"
ItemOID(name) == <<"IT.RS.", name>>

\* variant: expected variables are mandatory too
Mandatory_ExpToo(core) == IF core \in {"Req", "Exp"} THEN "Yes" ELSE "No"

\* "Yes" if var['core'] == "Req" else "No"
Mandatory(core) == IF core = "Req" THEN "Yes" ELSE "No"

\* ODM.ItemDef(OID=..., Name=..., ...)
MakeItemDef(var) ==
    [OID |-> ItemOID(var.name), Name |-> var.name, DataType |-> var.datatype,
     Length |-> var.length, SASFieldName |-> var.name, SDSVarName |-> var.name,
     Origin |-> var.origin, Label |-> var.label]

\* variant: enumerate without start=1
MakeItemRef_ZeroBased(i, var) ==
    [ItemOID |-> <<"IT.RS.", var.name>>,
     Mandatory |-> IF var.core = "Req" THEN "Yes" ELSE "No",
     OrderNumber |-> i - 1, Role |-> var.core]

\* ODM.ItemRef(ItemOID=..., Mandatory=..., OrderNumber=idx, Role=var['core'])
MakeItemRef(i, var) ==
    [ItemOID |-> ItemOID(var.name), Mandatory |-> Mandatory(var.core),
     OrderNumber |-> i, Role |-> var.core]

NoMDV == [Standard |-> <<>>, ItemDef |-> <<>>, ItemGroupDef |-> <<>>]
NoDomain == [OID |-> None, ItemRef |-> <<>>]

GTrace0 == [xmlAttempted |-> FALSE, xmlRaised |-> FALSE,
            jsonAttempted |-> FALSE, jsonRaised |-> FALSE, summary |-> FALSE]

OldFile == [state |-> "old"]
Files == {NoFile, OldFile}

GenInit ==
    /\ rs_variables \in {RS_VARIABLES} \cup SeqsUpTo(VarPool, MaxVars)
    /\ gpc = "start"
    /\ idx = 0
    /\ mdv = NoMDV
    /\ rs_domain = NoDomain
    /\ xmlFile \in Files
    /\ jsonFile \in Files
    /\ gtrace = GTrace0
    /\ success = None
    /\ gexit = NotExited

GenIdle ==
    /\ rs_variables = <<>>
    /\ gpc = "idle"
    /\ idx = 0
    /\ mdv = NoMDV
    /\ rs_domain = NoDomain
    /\ xmlFile = NoFile
    /\ jsonFile = NoFile
    /\ gtrace = GTrace0
    /\ success = None
    /\ gexit = NotExited

\* odm, mdv = create_study_metadata()
create_study_metadata ==
    /\ gpc = "start"
    /\ mdv' = [Standard |-> <<"STD.SDTM.1", "STD.CT.1">>,
               ItemDef |-> <<>>, ItemGroupDef |-> <<>>]
    /\ gpc' = "create_rs_domain"
    /\ UNCHANGED <<rs_variables, idx, rs_domain, xmlFile, jsonFile, gtrace,
                   success, gexit>>
    /\ UNCHANGED vvars

\* create_rs_domain: rs_domain = ODM.ItemGroupDef(OID="IG.RS", ...)
create_rs_domain_begin ==
    /\ gpc = "create_rs_domain"
    /\ rs_domain' = [OID |-> "IG.RS", ItemRef |-> <<>>]
    /\ idx' = 1
    /\ gpc' = "loop"
    /\ UNCHANGED <<rs_variables, mdv, xmlFile, jsonFile, gtrace, success, gexit>>
    /\ UNCHANGED vvars

\* one iteration of: for idx, var in enumerate(rs_variables, start=1)
create_rs_domain_item ==
    /\ gpc = "loop"
    /\ idx <= Len(rs_variables)
    /\ LET var == rs_variables[idx] IN
       /\ mdv' = [mdv EXCEPT !.ItemDef = Append(@, MakeItemDef(var))]
       /\ rs_domain' = [rs_domain EXCEPT !.ItemRef = Append(@, MakeItemRef(idx, var))]
    /\ idx' = idx + 1
    /\ UNCHANGED <<rs_variables, gpc, xmlFile, jsonFile, gtrace, success, gexit>>
    /\ UNCHANGED vvars

\* mdv.ItemGroupDef.append(rs_domain); return rs_domain
create_rs_domain_end ==
    /\ gpc = "loop"
    /\ idx > Len(rs_variables)
    /\ mdv' = [mdv EXCEPT !.ItemGroupDef = Append(@, rs_domain.OID)]
    /\ gpc' = "mkdir"
    /\ UNCHANGED <<rs_variables, idx, rs_domain, xmlFile, jsonFile, gtrace,
                   success, gexit>>
    /\ UNCHANGED vvars

\* output_dir.mkdir(parents=True, exist_ok=True)
Generate_Mkdir ==
    /\ gpc = "mkdir"
    /\ gpc' = "xml"
    /\ UNCHANGED <<rs_variables, idx, mdv, rs_domain, xmlFile, jsonFile, gtrace,
                   success, gexit>>
    /\ UNCHANGED vvars

\* a library or file-system call outside the two try blocks raises: the
\* exception leaves generate_define_xml_for_recist
Generate_Raises ==
    /\ gpc \in {"start", "create_rs_domain", "loop", "mkdir"}
    /\ gpc' = "fatal"
    /\ UNCHANGED <<rs_variables, idx, mdv, rs_domain, xmlFile, jsonFile, gtrace,
                   success, gexit>>
    /\ UNCHANGED vvars

\* what to_xml() / to_dict() serialise: the item definitions and references
Serialised(fmt) ==
    [state |-> "written", format |-> fmt,
     items |-> [i \in 1..Len(mdv.ItemDef) |-> mdv.ItemDef[i].Name],
     refs |-> [i \in 1..Len(rs_domain.ItemRef) |-> rs_domain.ItemRef[i].ItemOID]]

\* try: with open(xml_path, 'w') as f: f.write(odm.to_xml())
Generate_WriteXML ==
    /\ gpc = "xml"
    /\ xmlFile' = Serialised("xml")
    /\ gtrace' = [gtrace EXCEPT !.xmlAttempted = TRUE]
    /\ gpc' = "json"
    /\ UNCHANGED <<rs_variables, idx, mdv, rs_domain, jsonFile, success, gexit>>
    /\ UNCHANGED vvars

\* the XML try block raises: in open (file untouched) or after it (truncated)
Generate_WriteXMLRaises ==
    /\ gpc = "xml"
    /\ \E step \in {"open", "write"} :
         xmlFile' = IF step = "write" THEN Truncated ELSE xmlFile
    /\ gtrace' = [gtrace EXCEPT !.xmlAttempted = TRUE, !.xmlRaised = TRUE]
    /\ gpc' = "xml_except"
    /\ UNCHANGED <<rs_variables, idx, mdv, rs_domain, jsonFile, success, gexit>>
    /\ UNCHANGED vvars

\* variant: the XML handler reports and falls through to the JSON step
Generate_XMLExcept_Continues ==
    /\ gpc = "xml_except"
    /\ gpc' = "json"
    /\ UNCHANGED <<rs_variables, idx, mdv, rs_domain, xmlFile, jsonFile, gtrace,
                   success, gexit>>
    /\ UNCHANGED vvars

\* except Exception as e: print(...); return False
Generate_XMLExcept ==
    /\ gpc = "xml_except"
    /\ success' = False
    /\ gpc' = "returned"
    /\ UNCHANGED <<rs_variables, idx, mdv, rs_domain, xmlFile, jsonFile, gtrace,
                   gexit>>
    /\ UNCHANGED vvars

\* try: with open(json_path, 'w') as f: json.dump(odm.to_dict(), f, indent=2)
Generate_WriteJSON ==
    /\ gpc = "json"
    /\ jsonFile' = Serialised("json")
    /\ gtrace' = [gtrace EXCEPT !.jsonAttempted = TRUE]
    /\ gpc' = "summary"
    /\ UNCHANGED <<rs_variables, idx, mdv, rs_domain, xmlFile, success, gexit>>
    /\ UNCHANGED vvars

\* the JSON try block raises
Generate_WriteJSONRaises ==
    /\ gpc = "json"
    /\ \E step \in {"open", "write"} :
         jsonFile' = IF step = "write" THEN Truncated ELSE jsonFile
    /\ gtrace' = [gtrace EXCEPT !.jsonAttempted = TRUE, !.jsonRaised = TRUE]
    /\ gpc' = "json_except"
    /\ UNCHANGED <<rs_variables, idx, mdv, rs_domain, xmlFile, success, gexit>>
    /\ UNCHANGED vvars

\* variant: the JSON handler returns False like the XML handler
Generate_JSONExcept_Fails ==
    /\ gpc = "json_except"
    /\ success' = False
    /\ gpc' = "returned"
    /\ UNCHANGED <<rs_variables, idx, mdv, rs_domain, xmlFile, jsonFile, gtrace,
                   gexit>>
    /\ UNCHANGED vvars

\* except Exception as e: print(warning)
Generate_JSONExcept ==
    /\ gpc = "json_except"
    /\ gpc' = "summary"
    /\ UNCHANGED <<rs_variables, idx, mdv, rs_domain, xmlFile, jsonFile, gtrace,
                   success, gexit>>
    /\ UNCHANGED vvars

\* the summary prints; return True
Generate_Summary ==
    /\ gpc = "summary"
    /\ gtrace' = [gtrace EXCEPT !.summary = TRUE]
    /\ success' = True
    /\ gpc' = "returned"
    /\ UNCHANGED <<rs_variables, idx, mdv, rs_domain, xmlFile, jsonFile, gexit>>
    /\ UNCHANGED vvars

\* __main__: sys.exit(0 if success else 1)
Generate_MainExit ==
    /\ gpc = "returned"
    /\ gexit' = IF success = True THEN 0 ELSE 1
    /\ gpc' = "exited"
    /\ UNCHANGED <<rs_variables, idx, mdv, rs_domain, xmlFile, jsonFile, gtrace,
                   success>>
    /\ UNCHANGED vvars

\* __main__: except Exception as e: ...; sys.exit(1)
Generate_MainFatal ==
    /\ gpc = "fatal"
    /\ gexit' = 1
    /\ gpc' = "exited"
    /\ UNCHANGED <<rs_variables, idx, mdv, rs_domain, xmlFile, jsonFile, gtrace,
                   success>>
    /\ UNCHANGED vvars

GNext ==
    \/ create_study_metadata
    \/ create_rs_domain_begin
    \/ create_rs_domain_item
    \/ create_rs_domain_end
    \/ Generate_Mkdir
    \/ Generate_Raises
    \/ Generate_WriteXML
    \/ Generate_WriteXMLRaises
    \/ Generate_XMLExcept
    \/ Generate_WriteJSON
    \/ Generate_WriteJSONRaises
    \/ Generate_JSONExcept
    \/ Generate_Summary
    \/ Generate_MainExit
    \/ Generate_MainFatal

\* ======================================================================
\* Specifications: one per script
\* ======================================================================

InitValidate == ValInit /\ GenIdle
NextValidate == VNext
SpecValidate == InitValidate /\ [][NextValidate]_vars

InitDefine == GenInit /\ ValIdle
NextDefine == GNext
SpecDefine == InitDefine /\ [][NextDefine]_vars

\* ======================================================================
\* Properties of validate_with_core.py (checked under SpecValidate)
\* ======================================================================

Done == vpc \in {"returned", "exited"}
Report == reportFiles[domain_code]
MissingCols(d) == {RequiredVars[i] : i \in 1..Len(RequiredVars)} \ d.columns
AllRowsRS(d) == \A i \in 1..Len(d.DOMAIN_col) : d.DOMAIN_col[i] = "RS"
SomeRowNotRS(d) == \E i \in 1..Len(d.DOMAIN_col) : d.DOMAIN_col[i] # "RS"

\* C3: with the validation library unavailable the function returns True for
\* every path and code, never tests the file, never loads it, never touches a
\* report file, and the script exits with code 0.
C3_SkippedWhenUnavailable ==
    ~CORE_AVAILABLE =>
        /\ vpc \in {"call", "returned", "exited"}
        /\ ~trace.existsTested
        /\ trace.loads = 0
        /\ trace.writes = 0
        /\ reportFiles = reportFiles0
        /\ (Done => rs_valid = True)
        /\ (vpc = "exited" => vexit = 0)

C3_Witness ==
    /\ ~CORE_AVAILABLE
    /\ ~fileExists
    /\ vpc = "exited"
    /\ rs_valid = True
    /\ vexit = 0

\* C4: with the library available and the file missing the function returns
\* False at once: nothing is loaded, no check runs, no report file changes,
\* and the script exits with code 1.
C4_MissingFileFailsAtOnce ==
    (CORE_AVAILABLE /\ ~fileExists) =>
        /\ vpc \in {"call", "returned", "exited"}
        /\ trace.loads = 0
        /\ trace.checks = 0
        /\ ~trace.checked
        /\ trace.writes = 0
        /\ reportFiles = reportFiles0
        /\ (Done => rs_valid = False)
        /\ (vpc = "exited" => vexit = 1)

C4_Witness ==
    /\ CORE_AVAILABLE
    /\ ~fileExists
    /\ trace.existsTested
    /\ vpc = "exited"
    /\ reportFiles["RS"] = OldReport
    /\ vexit = 1

\* The error list the RS checks are said to build: one SDTM001 entry per
\* absent required column, in the order of the list, then one SDTM002 entry
\* iff some row's DOMAIN is not "RS".
Sdtm001(var) ==
    [rule_id |-> "SDTM001",
     message |-> <<"Required variable ", var, " is missing">>,
     severity |-> "error"]
Sdtm002 ==
    [rule_id |-> "SDTM002",
     message |-> <<"DOMAIN variable must equal \"RS\"">>,
     severity |-> "error"]
AbsentRequired(d) ==
    SelectSeq(<<"STUDYID", "DOMAIN", "USUBJID", "RSSEQ", "RSTESTCD", "RSTEST">>,
              LAMBDA v : v \notin d.columns)
ExpectedErrors(d) ==
    [i \in 1..Len(AbsentRequired(d)) |-> Sdtm001(AbsentRequired(d)[i])]
    \o (IF SomeRowNotRS(d) THEN <<Sdtm002>> ELSE <<>>)

\* C5: for domain RS, once the checks have run, the error list is exactly
\* one SDTM001 entry per absent required column followed by a single SDTM002
\* entry iff at least one row's DOMAIN differs from "RS"; a data frame whose
\* only defect is the absent USUBJID gives exactly the SDTM001 entry for
\* USUBJID, one with all columns and k >= 1 rows "XX" gives exactly one
\* SDTM002 entry, and a non-empty error list gives the result False.
C5_ErrorListOfRS ==
    (domain_code = "RS" /\ trace.checked) =>
        /\ errors = ExpectedErrors(df)
        /\ (MissingCols(df) = {"USUBJID"} /\ AllRowsRS(df)
              => errors = <<Sdtm001("USUBJID")>>)
        /\ (MissingCols(df) = {} /\ SomeRowNotRS(df)
              => errors = <<Sdtm002>>)
        /\ (Done /\ errors # <<>> => rs_valid = False)

C5_Witness ==
    /\ domain_code = "RS"
    /\ Done
    /\ MissingCols(df) = {}
    /\ df.DOMAIN_col = <<"XX", "XX">>
    /\ errors = <<Sdtm002>>
    /\ rs_valid = False

\* C6 as stated: whenever the data frame was loaded and the checks finished
\* without an exception, the result is True iff the error list is empty.
C6_PassIffNoErrors ==
    (Done /\ trace.checked) => (rs_valid = True <=> errors = <<>>)

\* C6 amended: whenever the data frame was loaded, the checks finished and the
\* report was built and written without an exception, the result is True iff
\* the error list is empty and the written report's `errors` is the length of
\* its `error_details`; warnings play no part; a conformant RS data frame
\* gives True with an empty error list.  When building or writing the report
\* raises, the result is False whatever the error list is.
C6_PassIffNoErrorsOnceWritten ==
    /\ (Done /\ trace.wrote) =>
          /\ (rs_valid = True <=> errors = <<>>)
          /\ (rs_valid = False <=> errors # <<>>)
          /\ Report.errors = Len(Report.error_details)
          /\ Report.error_details = errors
          /\ (domain_code = "RS" /\ MissingCols(df) = {} /\ AllRowsRS(df)
                => rs_valid = True /\ errors = <<>>)
    /\ (Done /\ trace.checked /\ ~trace.wrote) =>
          /\ trace.excAt \in {"report", "write"}
          /\ rs_valid = False

C6_Witness ==
    /\ Done
    /\ trace.wrote
    /\ domain_code = "RS"
    /\ MissingCols(df) = {}
    /\ df.records >= 1
    /\ AllRowsRS(df)
    /\ errors = <<>>
    /\ rs_valid = True

\* C7: an exception raised by the load or by the checks is caught: the
\* function returns False (exit code 1), the load is not tried again, and no
\* report file is written or changed in that run.
C7_ExceptionsCaught ==
    trace.excAt \in {"load", "check", "report"} =>
        /\ vpc \in {"except", "returned", "exited"}
        /\ trace.loads = 1
        /\ trace.checks <= 1
        /\ trace.writes = 0
        /\ reportFiles = reportFiles0
        /\ (Done => rs_valid = False)
        /\ (vpc = "exited" => vexit = 1)

C7_Witness ==
    /\ trace.excAt = "check"
    /\ vpc = "exited"
    /\ rs_valid = False
    /\ reportFiles["RS"] = OldReport
    /\ vexit = 1

\* C10 as stated: for a domain code other than RS, after a successful load,
\* the run fails while computing total_rules_checked: it returns False and
\* writes no report.
C10_OtherDomainFails ==
    (Done /\ domain_code # "RS" /\ df # NoDF) =>
        /\ rs_valid = False
        /\ trace.excAt = "report"
        /\ ~trace.wrote

\* C10 amended: for a domain code other than RS no check is run,
\* required_vars is never bound and never evaluated, computing
\* total_rules_checked does not raise, the report has total_rules_checked = 0
\* and errors = 0, and the result is True once the report is written (False
\* only when writing the report raises).
C10_OtherDomainPasses ==
    (CORE_AVAILABLE /\ domain_code # "RS") =>
        /\ ~required_vars.bound
        /\ trace.checks = 0
        /\ errors = <<>>
        /\ trace.excAt \in {"none", "load", "write"}
        /\ (vpc \in {"write", "return"} \/ trace.wrote =>
              report.total_rules_checked = 0 /\ report.errors = 0)
        /\ (trace.wrote => Report = report)
        /\ (Done /\ trace.wrote => rs_valid = True)
        /\ (Done /\ df # NoDF /\ ~trace.wrote =>
              trace.excAt = "write" /\ rs_valid = False)

C10_Witness ==
    /\ CORE_AVAILABLE
    /\ domain_code = "TU"
    /\ Done
    /\ trace.wrote
    /\ reportFiles["TU"].total_rules_checked = 0
    /\ reportFiles0["TU"] = OldReport
    /\ rs_valid = True

\* ======================================================================
\* Properties of generate_define_xml.py (checked under SpecDefine)
\* ======================================================================

GDone == gpc \in {"returned", "exited"}
DomainCreated == mdv.ItemGroupDef # <<>>

\* C1 as stated: the two writes are independent: when the XML write raised
\* the JSON write is still attempted, and when the JSON write raised the XML
\* write has been attempted.
C1_WritesIndependent ==
    /\ (gpc = "exited" /\ gtrace.xmlRaised => gtrace.jsonAttempted)
    /\ (gtrace.jsonRaised => gtrace.xmlAttempted)

\* C1 amended: the JSON write is attempted exactly when the XML write has
\* succeeded: a JSON failure never prevents the XML write, which has been
\* attempted (and has succeeded) before, but when the XML write raises the
\* function returns at once and the JSON write is not attempted.
C1_JsonOnlyAfterXml ==
    /\ (gtrace.jsonRaised => gtrace.xmlAttempted)
    /\ (gtrace.jsonAttempted => gtrace.xmlAttempted /\ ~gtrace.xmlRaised)
    /\ (gtrace.xmlRaised => ~gtrace.jsonAttempted /\ gpc # "json")
    /\ (GDone /\ gtrace.xmlAttempted /\ ~gtrace.xmlRaised => gtrace.jsonAttempted)

C1_Witness ==
    /\ gpc = "exited"
    /\ gtrace.xmlRaised
    /\ ~gtrace.jsonAttempted
    /\ jsonFile = OldFile

\* C2: the result depends on the XML step only: when the XML write raised the
\* function returns False and the script exits with 1; when it succeeded the
\* function reaches the summary, returns True and the script exits with 0,
\* whether or not the JSON write raised.
C2_ResultFollowsXml ==
    /\ (GDone /\ gtrace.xmlRaised) =>
          /\ success = False
          /\ ~gtrace.summary
          /\ (gpc = "exited" => gexit = 1)
    /\ (GDone /\ gtrace.xmlAttempted /\ ~gtrace.xmlRaised) =>
          /\ success = True
          /\ gtrace.summary
          /\ (gpc = "exited" => gexit = 0)
    /\ (gtrace.jsonRaised => gpc \in {"json_except", "summary", "returned", "exited"})

C2_Witness ==
    /\ gpc = "exited"
    /\ gtrace.xmlAttempted
    /\ ~gtrace.xmlRaised
    /\ gtrace.jsonRaised
    /\ success = True
    /\ gexit = 0

\* C8: after every iteration the ItemRef list and the ItemDef list hold one
\* entry per variable processed so far; the i-th ItemRef has OrderNumber i
\* and names the i-th declared variable, as the i-th ItemDef does; once
\* create_rs_domain has finished both lists have exactly N entries.
C8_OrderNumbersDense ==
    LET refs == rs_domain.ItemRef
        defs == mdv.ItemDef
    IN  /\ Len(refs) = Len(defs)
        /\ Len(refs) <= Len(rs_variables)
        /\ (gpc = "loop" => Len(refs) = idx - 1)
        /\ (DomainCreated => Len(refs) = Len(rs_variables))
        /\ \A i \in 1..Len(refs) :
              /\ refs[i].OrderNumber = i
              /\ refs[i].ItemOID = <<"IT.RS.", rs_variables[i].name>>
              /\ defs[i].OID = refs[i].ItemOID
              /\ defs[i].Name = rs_variables[i].name

C8_Witness ==
    /\ rs_variables = RS_VARIABLES
    /\ DomainCreated
    /\ Len(rs_domain.ItemRef) = 14
    /\ rs_domain.ItemRef[14].OrderNumber = 14
    /\ rs_domain.ItemRef[14].ItemOID = <<"IT.RS.", "RSDY">>

\* C9: every ItemRef has Mandatory = "Yes" when the variable's core
\* designation is Req and Mandatory = "No" for every other designation, and
\* its Role is the core designation itself.
C9_MandatoryFollowsCore ==
    \A i \in 1..Len(rs_domain.ItemRef) :
        LET ref == rs_domain.ItemRef[i]
            core == rs_variables[i].core
        IN  /\ (core = "Req" => ref.Mandatory = "Yes")
            /\ (core # "Req" => ref.Mandatory = "No")
            /\ ref.Role = core

C9_Witness ==
    /\ DomainCreated
    /\ \E i, j, k \in 1..Len(rs_domain.ItemRef) :
          /\ rs_domain.ItemRef[i].Role = "Req" /\ rs_domain.ItemRef[i].Mandatory = "Yes"
          /\ rs_domain.ItemRef[j].Role = "Exp" /\ rs_domain.ItemRef[j].Mandatory = "No"
          /\ rs_domain.ItemRef[k].Role = "Perm" /\ rs_domain.ItemRef[k].Mandatory = "No"

====
